---- MODULE Spec2Model ----
(***************************************************************************)
(* Model of the sendgrid_sso_teammate resource of                          *)
(* terraform-provider-sendgrid (internal/provider/resource_sso_teammate.go)*)
(* One resource instance, its tracked (observed) state, and the handler    *)
(* that is currently running, one step per blocking remote call.           *)
(***************************************************************************)
EXTENDS Integers, Sequences, FiniteSets, TLC

VARIABLES
    tracked,    \* the observed state Terraform holds for the resource
    op,         \* the handler that runs or last ran, with its locals and calls
    createdAs,  \* history: the identifier the tracked resource was created with
    baseline,   \* a reference collection run, fixed by Init (order specification)
    env,        \* the value of the environment variable SENDGRID_API_KEY
    provider,   \* the last provider Configure: its request and what it handed out
    client,     \* the client field of the resource and of the two data sources
    data        \* the data source Read that ran last: its request, call and response

vars == <<tracked, op, createdAs, baseline, env, provider, client, data>>

(***************************************************************************)
(* Bounds of the model.                                                    *)
(***************************************************************************)
\* No handler has an iteration cap; the model stops issuing page requests
\* after MaxPages pages (the handler then stays inside its loop).
MaxPages == 3

(***************************************************************************)
(* terraform-plugin-framework values: types.String / types.Bool are        *)
(* strings with two reserved tokens, types.List / types.Set are records.   *)
(***************************************************************************)
Null == "<null>"
Unknown == "<unknown>"
Omitted == "<omitted>"

StringValue(s) == s
ValueString(t) == IF t \in {Null, Unknown} THEN "" ELSE t
IsNull(t) == t = Null
IsUnknown(t) == t = Unknown
BoolValue(b) == IF b THEN "true" ELSE "false"
ValueBool(t) == t = "true"

ListNull == [state |-> "null", elems |-> <<>>]
ListValue(s) == [state |-> "known", elems |-> s]
SetNull == [state |-> "null", elems |-> {}]
Range(s) == {s[i] : i \in 1..Len(s)}
SetValue(s) == [state |-> "known", elems |-> Range(s)]

\* Go slices: nil and empty are different values of length 0.
NilSlice == [nil |-> TRUE, items |-> <<>>]
Slice(s) == [nil |-> FALSE, items |-> s]

\* A fixed iteration order for the elements of a types.Set (ElementsAs).
ScopeOrder == <<"messages.read", "stats.read">>
ElementsAs(set) == SelectSeq(ScopeOrder, LAMBDA x : x \in set.elems)

(***************************************************************************)
(* strconv.FormatInt(n, 10)                                                *)
(***************************************************************************)
Digit(d) == <<"0", "1", "2", "3", "4", "5", "6", "7", "8", "9">>[d + 1]

RECURSIVE FormatNat(_)
FormatNat(n) == IF n < 10 THEN Digit(n) ELSE FormatNat(n \div 10) \o Digit(n % 10)

FormatInt(n) == IF n < 0 THEN "-" \o FormatNat(0 - n) ELSE FormatNat(n)

(***************************************************************************)
(* Records of the source.                                                  *)
(***************************************************************************)
\* ssoTeammateModel
NullModel ==
    [id |-> Null, email |-> Null, first_name |-> Null, last_name |-> Null,
     has_restricted_subuser_access |-> Null, subuser_access |-> ListNull,
     status |-> Null]

\* teammateGetResponse after json.Unmarshal (absent fields are "")
ZeroGot == [email |-> "", status |-> "", first_name |-> "", last_name |-> ""]

\* teammateSubuserAccessResponse as sent: scopes of an entry are omitted,
\* null or a list; next is _metadata.next_params.after_subuser_id.
ZeroPage == [hasR |-> FALSE, entries |-> <<>>, next |-> 0]

\* json.Unmarshal of one subuser_access element into subuserAccessEntry
DecodeScopes(w) == IF w.form = "list" THEN Slice(w.items) ELSE NilSlice
DecodeEntry(w) ==
    [id |-> w.id, permission_type |-> w.permission_type, scopes |-> DecodeScopes(w.scopes)]

\* json.Marshal of a subuserAccessEntry (scopes has omitempty)
EncodeScopes(s) ==
    IF Len(s.items) = 0 THEN [form |-> "omitted", items |-> <<>>]
    ELSE [form |-> "list", items |-> s.items]
EncodeEntry(e) ==
    [id |-> e.id, permission_type |-> e.permission_type, scopes |-> EncodeScopes(e.scopes)]

NoBody ==
    [email |-> Omitted, first_name |-> Omitted, last_name |-> Omitted,
     has_restricted_subuser_access |-> Omitted,
     subuser_access |-> [present |-> FALSE, entries |-> <<>>]]

(***************************************************************************)
(* Remote responses: a transport error, or a status with a body that       *)
(* decodes (into got / page) or does not.                                  *)
(***************************************************************************)
TransportError ==
    [err |-> TRUE, status |-> 0, decodes |-> FALSE, got |-> ZeroGot, page |-> ZeroPage]
Garbled(s) ==
    [err |-> FALSE, status |-> s, decodes |-> FALSE, got |-> ZeroGot, page |-> ZeroPage]
ScalarBody(s, g) ==
    [err |-> FALSE, status |-> s, decodes |-> TRUE, got |-> g, page |-> ZeroPage]
PageBody(s, p) ==
    [err |-> FALSE, status |-> s, decodes |-> TRUE, got |-> ZeroGot, page |-> p]

Statuses == {200, 299, 300, 404}

\* One remote call as issued through sendgrid.API, with the response it got.
Call(what, method, path, after, body, resp) ==
    [what |-> what, method |-> method, path |-> path, limit |-> IF what = "page" THEN "100" ELSE Omitted,
     after_subuser_id |-> after, body |-> body, resp |-> resp]

MutationResponses == {TransportError} \cup {Garbled(s) : s \in Statuses}
ScalarResponses(D) ==
    {TransportError} \cup {Garbled(s) : s \in Statuses}
        \cup {ScalarBody(200, g) : g \in D.gots}
PageResponses(D) ==
    {TransportError} \cup {Garbled(s) : s \in Statuses}
        \cup {PageBody(200, p) : p \in D.pages}

(***************************************************************************)
(* Payload construction.                                                   *)
(***************************************************************************)
\* subuserAccessObject -> subuserAccessEntry (Create 223-237, Update 542-553)
EntryOf(o) ==
    [id |-> o.id, permission_type |-> o.permission_type,
     scopes |-> IF o.scopes.state = "known" THEN Slice(ElementsAs(o.scopes)) ELSE NilSlice]

PlanEntries(plan) ==
    IF plan.subuser_access.state = "known"
    THEN [i \in 1..Len(plan.subuser_access.elems) |-> EntryOf(plan.subuser_access.elems[i])]
    ELSE <<>>

EncodeEntries_AlwaysPresent(es) ==
    [present |-> TRUE, entries |-> [i \in 1..Len(es) |-> EncodeEntry(es[i])]]
EncodeEntries(es) ==
    [present |-> Len(es) > 0, entries |-> [i \in 1..Len(es) |-> EncodeEntry(es[i])]]

OmitEmpty(s) == IF s = "" THEN Omitted ELSE s

\* json.Marshal(ssoCreatePayload)
CreatePayload(plan) ==
    [email |-> ValueString(plan.email),
     first_name |-> OmitEmpty(ValueString(plan.first_name)),
     last_name |-> OmitEmpty(ValueString(plan.last_name)),
     has_restricted_subuser_access |-> BoolValue(ValueBool(plan.has_restricted_subuser_access)),
     subuser_access |-> EncodeEntries(PlanEntries(plan))]

PatchField_OmitEmpty(t) == OmitEmpty(ValueString(t))
PatchField(t) == IF ~IsNull(t) /\ ~IsUnknown(t) THEN ValueString(t) ELSE Omitted
PatchFlag(t) == IF ~IsNull(t) /\ ~IsUnknown(t) THEN BoolValue(ValueBool(t)) ELSE Omitted

\* json.Marshal(ssoPatchPayload)
PatchPayload(plan) ==
    [email |-> Omitted,
     first_name |-> PatchField(plan.first_name),
     last_name |-> PatchField(plan.last_name),
     has_restricted_subuser_access |-> PatchFlag(plan.has_restricted_subuser_access),
     subuser_access |-> EncodeEntries(PlanEntries(plan))]

(***************************************************************************)
(* Read-back: accumulation of pages and conversion to the state model.     *)
(***************************************************************************)
NormalizeName_KeepsEmpty(s) == StringValue(s)
NormalizeName(s) == IF s # "" THEN StringValue(s) ELSE Null

\* subuserAccessEntry -> subuserAccessObject
ObjectOf_DropsScopes(e) ==
    [id |-> e.id, permission_type |-> e.permission_type, scopes |-> SetNull]
ObjectOf_EmptyAsKnown(e) ==
    [id |-> e.id, permission_type |-> e.permission_type,
     scopes |-> IF e.scopes.nil THEN SetNull ELSE SetValue(e.scopes.items)]
ObjectOf(e) ==
    [id |-> e.id, permission_type |-> e.permission_type,
     scopes |-> IF Len(e.scopes.items) > 0 THEN SetValue(e.scopes.items) ELSE SetNull]

ObservedGrants(allEntries) ==
    IF Len(allEntries) > 0
    THEN ListValue([i \in 1..Len(allEntries) |-> ObjectOf(allEntries[i])])
    ELSE ListNull

DecodeEntries(ws) == [i \in 1..Len(ws) |-> DecodeEntry(ws[i])]

\* the append loop over sa.SubuserAccess
AppendPage_KeepsLastPage(allEntries, page) == DecodeEntries(page.entries)
AppendPage(allEntries, page) == allEntries \o DecodeEntries(page.entries)

\* the break test of the pagination loop
LastPage_NonPositive(page) == page.next <= 0
LastPage(page) == page.next = 0

\* the cursor the next request carries
CursorParam(afterID) == IF afterID > 0 THEN FormatInt(afterID) ELSE Omitted

RequestFails(resp) == resp.err \/ resp.status >= 300
BodyFails_IgnoreParseError(resp) == RequestFails(resp)
BodyFails(resp) == RequestFails(resp) \/ ~resp.decodes

PageCall(username, afterID, resp) ==
    Call("page", "GET", "/v3/teammates/" \o username \o "/subuser_access",
         CursorParam(afterID), NoBody, resp)

ScalarCall(username, resp) ==
    Call("scalar", "GET", "/v3/teammates/" \o username, Omitted, NoBody, resp)

AfterPage_SharedAccumulator(o, resp) ==
    [o EXCEPT !.hasRestricted = resp.page.hasR,
              !.allEntries = AppendPage(baseline.op.allEntries \o @, resp.page),
              !.afterID = IF LastPage(resp.page) THEN @ ELSE resp.page.next,
              !.calls = Append(@, PageCall(o.username, o.afterID, resp))]
AfterPage_FlagSticks(o, resp) ==
    [o EXCEPT !.hasRestricted = @ \/ resp.page.hasR,
              !.allEntries = AppendPage(@, resp.page),
              !.afterID = IF LastPage(resp.page) THEN @ ELSE resp.page.next,
              !.calls = Append(@, PageCall(o.username, o.afterID, resp))]

\* the handler's locals after a page that decoded
AfterPage(o, resp) ==
    [o EXCEPT !.hasRestricted = resp.page.hasR,
              !.allEntries = AppendPage(@, resp.page),
              !.afterID = IF LastPage(resp.page) THEN @ ELSE resp.page.next,
              !.calls = Append(@, PageCall(o.username, o.afterID, resp))]

ReadBackModel_KeepsIdentity(plan, o) ==
    [plan EXCEPT !.first_name = NormalizeName(o.got.first_name),
                 !.last_name = NormalizeName(o.got.last_name),
                 !.status = StringValue(o.got.status),
                 !.has_restricted_subuser_access = BoolValue(o.hasRestricted),
                 !.subuser_access = ObservedGrants(o.allEntries),
                 !.email = StringValue(o.username),
                 !.id = StringValue(o.username)]

ReadBackModel_MergesNames(plan, o) ==
    [plan EXCEPT !.first_name = IF IsNull(@) THEN NormalizeName(o.got.first_name) ELSE @,
                 !.last_name = IF IsNull(@) THEN NormalizeName(o.got.last_name) ELSE @,
                 !.status = StringValue(o.got.status),
                 !.has_restricted_subuser_access = BoolValue(o.hasRestricted),
                 !.subuser_access = ObservedGrants(o.allEntries),
                 !.id = StringValue(ValueString(plan.email))]

\* plan/state -> model written by Create and Update
ReadBackModel(plan, o) ==
    [plan EXCEPT !.first_name = NormalizeName(o.got.first_name),
                 !.last_name = NormalizeName(o.got.last_name),
                 !.status = StringValue(o.got.status),
                 !.has_restricted_subuser_access = BoolValue(o.hasRestricted),
                 !.subuser_access = ObservedGrants(o.allEntries),
                 !.id = StringValue(ValueString(plan.email))]

ReadModel_KeepsId(state, o) ==
    [state EXCEPT !.email = StringValue(o.got.email),
                  !.first_name = NormalizeName(o.got.first_name),
                  !.last_name = NormalizeName(o.got.last_name),
                  !.has_restricted_subuser_access = BoolValue(o.hasRestricted),
                  !.subuser_access = ObservedGrants(o.allEntries),
                  !.status = StringValue(o.got.status)]

ReadModel_KeepsNames(state, o) ==
    [state EXCEPT !.email = StringValue(o.got.email),
                  !.id = StringValue(o.got.email),
                  !.first_name = IF o.got.first_name = "" THEN @ ELSE StringValue(o.got.first_name),
                  !.last_name = IF o.got.last_name = "" THEN @ ELSE StringValue(o.got.last_name),
                  !.has_restricted_subuser_access = BoolValue(o.hasRestricted),
                  !.subuser_access = ObservedGrants(o.allEntries),
                  !.status = StringValue(o.got.status)]

\* state -> model written by Read
ReadModel(state, o) ==
    [state EXCEPT !.email = StringValue(o.got.email),
                  !.id = StringValue(o.got.email),
                  !.first_name = NormalizeName(o.got.first_name),
                  !.last_name = NormalizeName(o.got.last_name),
                  !.has_restricted_subuser_access = BoolValue(o.hasRestricted),
                  !.subuser_access = ObservedGrants(o.allEntries),
                  !.status = StringValue(o.got.status)]

(***************************************************************************)
(* The running handler.  pc: "idle" before the first operation, "scalar"   *)
(* and "page" while a handler waits to issue that call, "done" after it    *)
(* returned.  calls lists the remote calls of the handler in issue order.  *)
(***************************************************************************)
StartOp(kind, username, plan) ==
    [kind |-> kind, pc |-> "start", username |-> username, plan |-> plan,
     got |-> ZeroGot, allEntries |-> <<>>, hasRestricted |-> FALSE, afterID |-> 0,
     calls |-> <<>>, outcome |-> "none", diag |-> ""]

IdleOp == [StartOp("none", "", NullModel) EXCEPT !.pc = "idle"]

NoState == [present |-> FALSE, m |-> NullModel]
StateOf(m) == [present |-> TRUE, m |-> m]

Fail_KeepsGoing(o, title) == [o EXCEPT !.diag = title]
\* resp.Diagnostics.AddError(title, ...) followed by return
Fail(o, title) == [o EXCEPT !.pc = "done", !.outcome = "error", !.diag = title]
Sent(o, call) == [o EXCEPT !.calls = Append(@, call)]
Finish(o, outcome) == [o EXCEPT !.pc = "done", !.outcome = outcome]

PageCalls(o) == SelectSeq(o.calls, LAMBDA c : c.what = "page")

\* if r.client == nil { AddError("Not configured", ...); return }, the first
\* statement of Create, Read, Update and Delete
IsNil_Never(c) == FALSE
IsNil(c) == ~c.set
NotConfigured(kind) == Fail(StartOp(kind, "", NullModel), "Not configured")

Ready == op.pc \in {"idle", "done"}

(***************************************************************************)
(* Create                                                                  *)
(***************************************************************************)
CreatePost(D) ==
    /\ Ready
    /\ UNCHANGED <<baseline, env, provider, client, data>>
    /\ ~tracked.present
    /\ IF IsNil(client.SSOTeammateResource)
       THEN op' = NotConfigured("create")
       ELSE \E plan \in D.plans, resp \in MutationResponses :
        LET username == ValueString(plan.email)
            o == Sent(StartOp("create", username, plan),
                      Call("post", "POST", "/v3/sso/teammates", Omitted, CreatePayload(plan), resp))
        IN  op' = IF resp.err THEN Fail(o, "SendGrid API error")
                  ELSE IF resp.status >= 300 THEN Fail(o, "Create SSO Teammate failed")
                  ELSE [o EXCEPT !.pc = "scalar"]
    /\ UNCHANGED <<tracked, createdAs>>

CreateGet(D) ==
    /\ op.kind = "create" /\ op.pc = "scalar"
    /\ UNCHANGED <<baseline, env, provider, client, data>>
    /\ \E resp \in ScalarResponses(D) :
        LET o == Sent(op, ScalarCall(op.username, resp))
        IN  op' = IF resp.err THEN Fail(o, "SendGrid API error (post-create read)")
                  ELSE IF resp.status >= 300 THEN Fail(o, "Post-create read failed")
                  ELSE IF ~resp.decodes THEN Fail(o, "Parse error (post-create teammate)")
                  ELSE [o EXCEPT !.got = resp.got, !.pc = "page"]
    /\ UNCHANGED <<tracked, createdAs>>

CreatePage(D) ==
    /\ op.kind = "create" /\ op.pc = "page"
    /\ UNCHANGED <<baseline, env, provider, client, data>>
    /\ Len(PageCalls(op)) < MaxPages
    /\ \E resp \in PageResponses(D) :
        LET sent == Sent(op, PageCall(op.username, op.afterID, resp))
            o == AfterPage(op, resp)
        IN  IF BodyFails(resp)
            THEN /\ op' = IF resp.err THEN Fail(sent, "SendGrid API error (post-create subuser_access)")
                          ELSE IF resp.status >= 300 THEN Fail(sent, "Post-create subuser_access read failed")
                          ELSE Fail(sent, "Parse error (post-create subuser_access)")
                 /\ UNCHANGED <<tracked, createdAs>>
            ELSE IF LastPage(resp.page)
            THEN /\ op' = Finish(o, "ok")
                 /\ tracked' = StateOf(ReadBackModel(op.plan, o))
                 /\ createdAs' = ValueString(op.plan.email)
            ELSE /\ op' = o
                 /\ UNCHANGED <<tracked, createdAs>>

(***************************************************************************)
(* Read                                                                    *)
(***************************************************************************)
\* the status Read takes for "removed from remote"
NotFound_AnyFailure(status) == status >= 300
NotFound_Never(status) == FALSE
NotFound(status) == status = 404

ReadUsername_EmailOnly(state) == ValueString(state.email)
ReadUsername(state) ==
    IF ValueString(state.email) = "" /\ ~IsNull(state.id) /\ ~IsUnknown(state.id)
    THEN ValueString(state.id)
    ELSE ValueString(state.email)

ReadGet(D) ==
    /\ Ready
    /\ UNCHANGED <<baseline, env, provider, client, data>>
    /\ tracked.present
    /\ LET username == ReadUsername(tracked.m)
           start == StartOp("read", username, tracked.m)
       IN  IF IsNil(client.SSOTeammateResource)
           THEN /\ op' = NotConfigured("read")
                /\ UNCHANGED <<tracked, createdAs>>
           ELSE IF username = ""
           THEN /\ op' = Fail(start, "Missing identifier")
                /\ UNCHANGED <<tracked, createdAs>>
           ELSE \E resp \in ScalarResponses(D) :
                LET o == Sent(start, ScalarCall(username, resp))
                IN  IF resp.err
                    THEN /\ op' = Fail(o, "SendGrid API error")
                         /\ UNCHANGED <<tracked, createdAs>>
                    ELSE IF NotFound(resp.status)
                    THEN /\ op' = Finish(o, "removed")
                         /\ tracked' = NoState
                         /\ createdAs' = ""
                    ELSE /\ op' = IF resp.status >= 300 THEN Fail(o, "Read teammate failed")
                                  ELSE IF ~resp.decodes THEN Fail(o, "Parse error")
                                  ELSE [o EXCEPT !.got = resp.got, !.pc = "page"]
                         /\ UNCHANGED <<tracked, createdAs>>

ReadPage(D) ==
    /\ op.kind = "read" /\ op.pc = "page"
    /\ UNCHANGED <<baseline, env, provider, client, data>>
    /\ Len(PageCalls(op)) < MaxPages
    /\ \E resp \in PageResponses(D) :
        LET sent == Sent(op, PageCall(op.username, op.afterID, resp))
            o == AfterPage(op, resp)
        IN  IF BodyFails(resp)
            THEN /\ op' = IF resp.err THEN Fail(sent, "SendGrid API error (subuser_access)")
                          ELSE IF resp.status >= 300 THEN Fail(sent, "Read subuser access failed")
                          ELSE Fail(sent, "Parse error (subuser_access)")
                 /\ UNCHANGED <<tracked, createdAs>>
            ELSE IF LastPage(resp.page)
            THEN /\ op' = Finish(o, "ok")
                 /\ tracked' = StateOf(ReadModel(tracked.m, o))
                 /\ UNCHANGED createdAs
            ELSE /\ op' = o
                 /\ UNCHANGED <<tracked, createdAs>>

(***************************************************************************)
(* Update                                                                  *)
(***************************************************************************)
UpdatePatch(D) ==
    /\ Ready
    /\ UNCHANGED <<baseline, env, provider, client, data>>
    /\ tracked.present /\ ~IsNull(tracked.m.email)
    /\ IF IsNil(client.SSOTeammateResource)
       THEN op' = NotConfigured("update")
       ELSE \E plan \in D.plans, resp \in MutationResponses :
        LET username == ValueString(tracked.m.email)
            o == Sent(StartOp("update", username, plan),
                      Call("patch", "PATCH", "/v3/sso/teammates/" \o username, Omitted,
                           PatchPayload(plan), resp))
        IN  op' = IF resp.err THEN Fail(o, "SendGrid API error")
                  ELSE IF resp.status >= 300 THEN Fail(o, "Update SSO Teammate failed")
                  ELSE [o EXCEPT !.pc = "scalar"]
    /\ UNCHANGED <<tracked, createdAs>>

UpdateGet(D) ==
    /\ op.kind = "update" /\ op.pc = "scalar"
    /\ UNCHANGED <<baseline, env, provider, client, data>>
    /\ \E resp \in ScalarResponses(D) :
        LET o == Sent(op, ScalarCall(op.username, resp))
        IN  op' = IF resp.err THEN Fail(o, "SendGrid API error (post-update read)")
                  ELSE IF resp.status >= 300 THEN Fail(o, "Post-update read failed")
                  ELSE IF ~resp.decodes THEN Fail(o, "Parse error (post-update teammate)")
                  ELSE [o EXCEPT !.got = resp.got, !.pc = "page"]
    /\ UNCHANGED <<tracked, createdAs>>

UpdatePage(D) ==
    /\ op.kind = "update" /\ op.pc = "page"
    /\ UNCHANGED <<baseline, env, provider, client, data>>
    /\ Len(PageCalls(op)) < MaxPages
    /\ \E resp \in PageResponses(D) :
        LET sent == Sent(op, PageCall(op.username, op.afterID, resp))
            o == AfterPage(op, resp)
        IN  IF BodyFails(resp)
            THEN /\ op' = IF resp.err THEN Fail(sent, "SendGrid API error (post-update subuser_access)")
                          ELSE IF resp.status >= 300 THEN Fail(sent, "Post-update subuser_access read failed")
                          ELSE Fail(sent, "Parse error (post-update subuser_access)")
                 /\ UNCHANGED <<tracked, createdAs>>
            ELSE IF LastPage(resp.page)
            THEN /\ op' = Finish(o, "ok")
                 /\ tracked' = StateOf(ReadBackModel(op.plan, o))
                 /\ UNCHANGED createdAs
            ELSE /\ op' = o
                 /\ UNCHANGED <<tracked, createdAs>>

(***************************************************************************)
(* Delete and ImportState                                                  *)
(***************************************************************************)
\* the statuses Delete takes for success
DeleteAccepts_Only2xx(status) == status < 300
DeleteAccepts(status) == ~(status >= 300 /\ status # 404)

\* A Delete that returns without error diagnostics makes the framework drop
\* the resource from state.
Delete ==
    /\ Ready
    /\ UNCHANGED <<baseline, env, provider, client, data>>
    /\ tracked.present /\ ~IsNull(tracked.m.email)
    /\ IF IsNil(client.SSOTeammateResource)
       THEN /\ op' = NotConfigured("delete")
            /\ UNCHANGED <<tracked, createdAs>>
       ELSE \E resp \in MutationResponses :
        LET username == ValueString(tracked.m.email)
            o == Sent(StartOp("delete", username, tracked.m),
                      Call("delete", "DELETE", "/v3/teammates/" \o username, Omitted, NoBody, resp))
        IN  IF resp.err
            THEN /\ op' = Fail(o, "SendGrid API error")
                 /\ UNCHANGED <<tracked, createdAs>>
            ELSE IF ~DeleteAccepts(resp.status)
            THEN /\ op' = Fail(o, "Delete teammate failed")
                 /\ UNCHANGED <<tracked, createdAs>>
            ELSE /\ op' = Finish(o, "ok")
                 /\ tracked' = NoState
                 /\ createdAs' = ""

\* resource.ImportStatePassthroughID(ctx, path.Root("id"), req, resp)
ImportState(D) ==
    /\ Ready
    /\ UNCHANGED <<baseline, env, provider, client, data>>
    /\ ~tracked.present
    /\ \E id \in D.importIds :
        /\ tracked' = StateOf([NullModel EXCEPT !.id = StringValue(id)])
        /\ op' = Finish(StartOp("import", id, NullModel), "ok")
        /\ createdAs' = id

(***************************************************************************)
(* SendGridProvider.Configure                                              *)
(***************************************************************************)
defaultBaseURL == "https://api.sendgrid.com"

\* *Client; nil before Configure
NoClient == [set |-> FALSE, BaseURL |-> "", APIKey |-> ""]
Client(baseURL, apiKey) == [set |-> TRUE, BaseURL |-> baseURL, APIKey |-> apiKey]

\* provider.ConfigureRequest: its Config is the zero value or holds the two
\* attributes of the provider schema
ZeroConfig == [zero |-> TRUE, base_url |-> Null, api_key |-> Null]
ConfigOf(b, k) == [zero |-> FALSE, base_url |-> b, api_key |-> k]

\* providerModel after the guarded req.Config.Get
ConfigGet(config) ==
    IF config.zero THEN [BaseURL |-> Null, APIKey |-> Null]
    ELSE [BaseURL |-> config.base_url, APIKey |-> config.api_key]

ResolveBaseURL_KeepsEmpty(cfg) ==
    IF ~IsNull(cfg.BaseURL) /\ ~IsUnknown(cfg.BaseURL)
    THEN ValueString(cfg.BaseURL) ELSE defaultBaseURL
ResolveBaseURL(cfg) ==
    IF ~IsNull(cfg.BaseURL) /\ ~IsUnknown(cfg.BaseURL) /\ ValueString(cfg.BaseURL) # ""
    THEN ValueString(cfg.BaseURL) ELSE defaultBaseURL

Getenv(e) == e

ResolveAPIKey(cfg, e) ==
    LET apiKey == IF ~IsNull(cfg.APIKey) /\ ~IsUnknown(cfg.APIKey)
                  THEN ValueString(cfg.APIKey) ELSE ""
    IN  IF apiKey = "" THEN Getenv(e) ELSE apiKey

Unconfigured ==
    [configured |-> FALSE, config |-> ZeroConfig, getenv |-> "",
     DataSourceData |-> NoClient, ResourceData |-> NoClient]

BaseURLs == {Null, Unknown, "", "https://mock.test", "https://eu.test"}
APIKeys == {Null, Unknown, "", "cfg-key", "env-key"}
EnvValues == {"", "env-key", "other-key"}
Configs == {ZeroConfig} \cup {ConfigOf(b, k) : b \in BaseURLs, k \in APIKeys}

\* os.Setenv("SENDGRID_API_KEY", v) by the process that starts the provider
Setenv ==
    /\ \E v \in EnvValues : env' = v
    /\ UNCHANGED <<tracked, op, createdAs, baseline, provider, client, data>>

\* the response of Configure to a request with this configuration, in this
\* environment
ConfigureResponse(config, e) ==
    LET cfg == ConfigGet(config)
        c == Client(ResolveBaseURL(cfg), ResolveAPIKey(cfg, e))
    IN  [configured |-> TRUE, config |-> config, getenv |-> Getenv(e),
         DataSourceData |-> c, ResourceData |-> c]

Configure ==
    /\ \E config \in Configs : provider' = ConfigureResponse(config, env)
    /\ UNCHANGED <<tracked, op, createdAs, baseline, env, client, data>>

(***************************************************************************)
(* The Configure of the resource and of the data sources: each keeps the   *)
(* client the provider handed out, and returns at once when the provider   *)
(* data is nil.                                                            *)
(***************************************************************************)
NoClients ==
    [SSOTeammateResource |-> NoClient, TeammateDataSource |-> NoClient,
     TeammateSubuserAccessDataSource |-> NoClient]

\* if req.ProviderData == nil { return }; ...; x.client = pc
ProviderData(pd, held) == IF ~pd.set THEN held ELSE pd

ResourceConfigure ==
    /\ client' = [client EXCEPT !.SSOTeammateResource = ProviderData(provider.ResourceData, @)]
    /\ UNCHANGED <<tracked, op, createdAs, baseline, env, provider, data>>

TeammateConfigure ==
    /\ client' = [client EXCEPT !.TeammateDataSource = ProviderData(provider.DataSourceData, @)]
    /\ UNCHANGED <<tracked, op, createdAs, baseline, env, provider, data>>

SubuserAccessConfigure ==
    /\ client' = [client EXCEPT
                    !.TeammateSubuserAccessDataSource = ProviderData(provider.DataSourceData, @)]
    /\ UNCHANGED <<tracked, op, createdAs, baseline, env, provider, data>>

\* the data source Read that ran last: none yet
NoData == [kind |-> "none", config |-> <<>>, calls |-> <<>>, set |-> FALSE, state |-> <<>>,
           diag |-> ""]

\* The provider process once the framework has configured it, with no
\* provider block and no key in the environment, and has passed the client
\* to the resource and the data sources.
Serving ==
    /\ env = ""
    /\ provider = ConfigureResponse(ZeroConfig, "")
    /\ client = [SSOTeammateResource |-> ProviderData(provider.ResourceData, NoClient),
                 TeammateDataSource |-> ProviderData(provider.DataSourceData, NoClient),
                 TeammateSubuserAccessDataSource |->
                     ProviderData(provider.DataSourceData, NoClient)]
    /\ data = NoData

NoBaseline == [pages |-> <<>>, grants |-> ListNull]

\* The provider process after New() and the component constructors.
Constructed ==
    /\ tracked = NoState
    /\ op = IdleOp
    /\ createdAs = ""
    /\ baseline = NoBaseline
    /\ env = ""
    /\ provider = Unconfigured
    /\ client = NoClients
    /\ data = NoData

(***************************************************************************)
(* Inputs of the lifecycle specification.                                  *)
(***************************************************************************)
Admin1 == [id |-> 1, permission_type |-> "admin", scopes |-> [form |-> "omitted", items |-> <<>>]]
Restricted2 ==
    [id |-> 2, permission_type |-> "restricted",
     scopes |-> [form |-> "list", items |-> <<"messages.read">>]]

PlanAdmin1 == [id |-> 1, permission_type |-> "admin", scopes |-> SetNull]

Emails == {"a@x.io", "b@x.io"}

PlanOf(e, f, g) ==
    [NullModel EXCEPT !.id = Unknown, !.status = Unknown, !.email = e, !.first_name = f,
                      !.has_restricted_subuser_access = "true", !.subuser_access = g]

LifecyclePlans ==
    {PlanOf(e, f, ListValue(<<PlanAdmin1>>)) : e \in Emails, f \in {Null, "Ann"}}
        \cup {PlanOf("a@x.io", "Ann", ListNull)}

GotOf(e, f) == [email |-> e, status |-> "active", first_name |-> f, last_name |-> ""]

LifecycleGots == {GotOf("a@x.io", ""), GotOf("a@x.io", "Ann"), GotOf("b@x.io", "Ann")}

LifecyclePages ==
    {[hasR |-> TRUE, entries |-> <<Admin1>>, next |-> 1],
     [hasR |-> TRUE, entries |-> <<Restricted2>>, next |-> 0],
     [hasR |-> FALSE, entries |-> <<>>, next |-> 0]}

Lifecycle ==
    [plans |-> LifecyclePlans, gots |-> LifecycleGots, pages |-> LifecyclePages,
     importIds |-> {"a@x.io"}]

Init ==
    /\ tracked = NoState
    /\ op = IdleOp
    /\ createdAs = ""
    /\ baseline = NoBaseline
    /\ Serving

Next ==
    \/ CreatePost(Lifecycle)
    \/ CreateGet(Lifecycle)
    \/ CreatePage(Lifecycle)
    \/ ReadGet(Lifecycle)
    \/ ReadPage(Lifecycle)
    \/ UpdatePatch(Lifecycle)
    \/ UpdateGet(Lifecycle)
    \/ UpdatePage(Lifecycle)
    \/ Delete
    \/ ImportState(Lifecycle)

Spec == Init /\ [][Next]_vars

(***************************************************************************)
(* The paging specification: a resource is created, or imported and        *)
(* refreshed, against a server that pages the grants as it likes.          *)
(***************************************************************************)
Restricted1 ==
    [id |-> 1, permission_type |-> "restricted",
     scopes |-> [form |-> "list", items |-> <<"stats.read">>]]

PlanRestricted2 ==
    [id |-> 2, permission_type |-> "restricted", scopes |-> SetValue(<<"messages.read">>)]
PlanRestricted1 ==
    [id |-> 1, permission_type |-> "restricted", scopes |-> SetValue(<<"stats.read">>)]

PagingEntries ==
    {<<>>, <<Admin1>>, <<Restricted2>>, <<Restricted1>>, <<Restricted2, Admin1>>}

Markers == {-1, 0, 12}

Paging ==
    [plans |-> {PlanOf("a@x.io", Null, ListValue(g)) :
                    g \in {<<PlanAdmin1, PlanRestricted2>>,
                           <<PlanAdmin1, PlanRestricted1>>,
                           <<PlanAdmin1, PlanRestricted2, PlanRestricted1>>}},
     gots |-> {GotOf("a@x.io", "Ann")},
     pages |-> {[hasR |-> TRUE, entries |-> es, next |-> n] : es \in PagingEntries, n \in Markers},
     importIds |-> {"a@x.io"}]

\* the refresh that follows an import
Imported == tracked.present /\ IsNull(tracked.m.email)

NextPages ==
    \/ CreatePost(Paging)
    \/ CreateGet(Paging)
    \/ CreatePage(Paging)
    \/ ImportState(Paging)
    \/ (Imported /\ ReadGet(Paging))
    \/ ReadPage(Paging)
    \/ Delete

SpecPages == Init /\ [][NextPages]_vars

(***************************************************************************)
(* The order specification: Init fixes a reference run of the collection   *)
(* loop over some pages; the handlers then read pages in any order.        *)
(***************************************************************************)
RECURSIVE CollectEntries(_, _)
CollectEntries(pages, allEntries) ==
    IF pages = <<>> THEN allEntries
    ELSE CollectEntries(Tail(pages), AppendPage(allEntries, Head(pages)))

\* a run of the loop: every page but the last asks for more
IsRun(pages) ==
    /\ pages # <<>>
    /\ \A i \in 1..Len(pages) : LastPage(pages[i]) <=> i = Len(pages)

RunsOver(pageSet) ==
    {ps \in UNION {[1..n -> pageSet] : n \in 1..MaxPages} : IsRun(ps)}

BaselineOf(pages) ==
    [pages |-> pages, grants |-> ObservedGrants(CollectEntries(pages, <<>>))]

Order ==
    [plans |-> {},
     gots |-> {GotOf("a@x.io", "Ann")},
     pages |-> {[hasR |-> TRUE, entries |-> <<Admin1>>, next |-> 12],
                [hasR |-> TRUE, entries |-> <<Restricted2>>, next |-> 12],
                [hasR |-> TRUE, entries |-> <<Admin1>>, next |-> 0],
                [hasR |-> TRUE, entries |-> <<Restricted2>>, next |-> 0]},
     importIds |-> {"a@x.io"}]

InitOrder ==
    /\ tracked = NoState
    /\ op = IdleOp
    /\ createdAs = ""
    /\ baseline \in {BaselineOf(ps) : ps \in RunsOver(Order.pages)}
    /\ Serving

NextOrder ==
    \/ ImportState(Order)
    \/ ReadGet(Order)
    \/ ReadPage(Order)
    \/ Delete

SpecOrder == InitOrder /\ [][NextOrder]_vars

(***************************************************************************)
(* The codec specification: the full lifecycle against a server that       *)
(* sends the scopes of a grant omitted, null, empty or filled.             *)
(***************************************************************************)
AdminNull1 == [id |-> 1, permission_type |-> "admin", scopes |-> [form |-> "null", items |-> <<>>]]
AdminEmpty1 == [id |-> 1, permission_type |-> "admin", scopes |-> [form |-> "list", items |-> <<>>]]
AdminScoped1 ==
    [id |-> 1, permission_type |-> "admin",
     scopes |-> [form |-> "list", items |-> <<"stats.read">>]]
RestrictedAB ==
    [id |-> 2, permission_type |-> "restricted",
     scopes |-> [form |-> "list", items |-> <<"messages.read", "stats.read">>]]
RestrictedBA ==
    [id |-> 2, permission_type |-> "restricted",
     scopes |-> [form |-> "list", items |-> <<"stats.read", "messages.read">>]]

CodecPages ==
    {[hasR |-> TRUE, entries |-> <<Admin1>>, next |-> 12],
     [hasR |-> TRUE, entries |-> <<AdminNull1>>, next |-> 12],
     [hasR |-> TRUE, entries |-> <<RestrictedAB>>, next |-> 12],
     [hasR |-> TRUE, entries |-> <<AdminEmpty1>>, next |-> 0],
     [hasR |-> TRUE, entries |-> <<AdminScoped1>>, next |-> 0],
     [hasR |-> TRUE, entries |-> <<RestrictedBA>>, next |-> 0]}

Codec ==
    [plans |-> {PlanOf("a@x.io", "Ann", ListValue(<<PlanAdmin1>>))},
     gots |-> {GotOf("a@x.io", "Ann")},
     pages |-> CodecPages,
     importIds |-> {"a@x.io"}]

NextCodec ==
    \/ CreatePost(Codec)
    \/ CreateGet(Codec)
    \/ CreatePage(Codec)
    \/ ReadGet(Codec)
    \/ ReadPage(Codec)
    \/ UpdatePatch(Codec)
    \/ UpdateGet(Codec)
    \/ UpdatePage(Codec)
    \/ Delete
    \/ ImportState(Codec)

SpecCodec == Init /\ [][NextCodec]_vars

(***************************************************************************)
(* The patch specification: Create and Update under every shape of the     *)
(* desired state that an apply can hand to the handlers.                   *)
(***************************************************************************)
PlanWith(e, f, l, h, g) ==
    [PlanOf(e, f, g) EXCEPT !.last_name = l, !.has_restricted_subuser_access = h]

PatchPlans ==
    {PlanWith("a@x.io", f, l, h, g) :
        f \in {Null, "", "Ann"}, l \in {Null, "Lee"}, h \in {"true", "false"},
        g \in {ListNull, ListValue(<<>>), ListValue(<<PlanAdmin1, PlanRestricted2>>)}}

Patch ==
    [plans |-> PatchPlans,
     gots |-> {GotOf("a@x.io", "Ann")},
     pages |-> {[hasR |-> TRUE, entries |-> <<Admin1>>, next |-> 0],
                [hasR |-> FALSE, entries |-> <<>>, next |-> 0]},
     importIds |-> {}]

NextPatch ==
    \/ CreatePost(Patch)
    \/ CreateGet(Patch)
    \/ CreatePage(Patch)
    \/ UpdatePatch(Patch)
    \/ UpdateGet(Patch)
    \/ UpdatePage(Patch)
    \/ Delete

SpecPatch == Init /\ [][NextPatch]_vars

(***************************************************************************)
(* The identifier specification: imports and refreshes against a server    *)
(* that may return a teammate without email.                               *)
(***************************************************************************)
Ident ==
    [plans |-> {},
     gots |-> {GotOf("a@x.io", "Ann"), GotOf("", "Ann")},
     pages |-> {[hasR |-> TRUE, entries |-> <<Admin1>>, next |-> 12],
                [hasR |-> TRUE, entries |-> <<Restricted2>>, next |-> 0],
                [hasR |-> FALSE, entries |-> <<>>, next |-> 0]},
     importIds |-> {"a@x.io", ""}]

NextIdent ==
    \/ ImportState(Ident)
    \/ ReadGet(Ident)
    \/ ReadPage(Ident)
    \/ Delete

SpecIdent == Init /\ [][NextIdent]_vars

(***************************************************************************)
(* The pair specification: two resources with distinct identities, each    *)
(* imported, refreshed and deleted by handlers of the one                  *)
(* SSOTeammateResource.  tracked, op and createdAs belong to the resource  *)
(* whose handler runs; baseline holds the other resource, with a handler   *)
(* that may be waiting inside a remote call.  Switch passes control from   *)
(* one to the other at any point between two calls.                        *)
(***************************************************************************)
Identities == {"a@x.io", "b@x.io"}

Parked(who, t, o, c) == [who |-> who, tracked |-> t, op |-> o, createdAs |-> c]

\* the identity of the resource whose handler runs
Running == CHOOSE e \in Identities : e # baseline.who

PairOf(e) ==
    [plans |-> {},
     gots |-> {GotOf(e, "Ann")},
     pages |-> {[hasR |-> TRUE, entries |-> <<Admin1>>, next |-> 12],
                [hasR |-> TRUE, entries |-> <<Restricted2>>, next |-> 0]},
     importIds |-> {e}]

InitPair ==
    /\ baseline = Parked("b@x.io", NoState, IdleOp, "")
    /\ tracked = NoState
    /\ op = IdleOp
    /\ createdAs = ""
    /\ Serving

Switch ==
    /\ tracked' = baseline.tracked
    /\ op' = baseline.op
    /\ createdAs' = baseline.createdAs
    /\ baseline' = Parked(Running, tracked, op, createdAs)
    /\ UNCHANGED <<env, provider, client, data>>

NextPair ==
    \/ ImportState(PairOf(Running))
    \/ ReadGet(PairOf(Running))
    \/ ReadPage(PairOf(Running))
    \/ Delete
    \/ Switch

SpecPair == InitPair /\ [][NextPair]_vars

(***************************************************************************)
(* The provider specification: the environment changes and Configure runs  *)
(* with any configuration.                                                 *)
(***************************************************************************)
NextProvider ==
    \/ Setenv
    \/ Configure

SpecProvider == Constructed /\ [][NextProvider]_vars

(***************************************************************************)
(* Properties of the lifecycle specification.                              *)
(***************************************************************************)
LastCall(o) == o.calls[Len(o.calls)]
Returned(o) == o.pc = "done"
Succeeded(o) == Returned(o) /\ o.outcome = "ok"

\* a remote call that did not succeed: transport error, status >= 300, or
\* (for the two GETs, whose bodies are decoded) an undecodable body
CallFailed(c) ==
    \/ c.resp.err
    \/ c.resp.status >= 300
    \/ c.what \in {"scalar", "page"} /\ ~c.resp.decodes

\* C1: a Create, Update or Delete whose mutating call, scalar read-back or
\* any grants page fails (transport, status, decoding) returns with an error
\* and the step leaves the observed state as it was; no step of such an
\* operation other than its successful last one writes observed state.
C1_FailedMutationWritesNothing ==
    [][/\ (/\ op'.kind \in {"create", "update"}
           /\ op'.calls # <<>>
           /\ CallFailed(LastCall(op')))
          => (Returned(op') /\ op'.outcome = "error" /\ op'.diag # "" /\ tracked' = tracked)
       /\ (/\ op'.kind = "delete"
           /\ (LastCall(op').resp.err
                \/ (LastCall(op').resp.status >= 300 /\ LastCall(op').resp.status # 404)))
          => (Returned(op') /\ op'.outcome = "error" /\ op'.diag # "" /\ tracked' = tracked)
       /\ (op'.kind \in {"create", "update", "delete"} /\ ~Succeeded(op'))
          => tracked' = tracked]_vars

C1_Witness ==
    /\ op.kind = "update" /\ Returned(op) /\ op.outcome = "error"
    /\ Len(PageCalls(op)) = 2
    /\ ~LastCall(op).resp.decodes /\ LastCall(op).resp.status = 200
    /\ tracked.present /\ tracked.m.subuser_access.state = "known"

\* C2 (as claimed), at the states that follow a successful Create or Update:
\* the identifier recorded in observed state (id and email) is the
\* identifier the resource was created with.
C2_IdentifierIsStable ==
    (op.kind \in {"create", "update"} /\ Succeeded(op))
        => (tracked.m.id = createdAs /\ tracked.m.email = createdAs)

\* C7: a Read whose scalar fetch is answered 404 removes the resource from
\* tracked state, adds no error diagnostic and fetches no grants page.
C7_ReadNotFound ==
    (/\ op.kind = "read" /\ Returned(op)
     /\ op.calls # <<>>
     /\ ~op.calls[1].resp.err /\ op.calls[1].resp.status = 404)
        => (/\ op.outcome = "removed" /\ op.diag = ""
            /\ ~tracked.present
            /\ Len(op.calls) = 1 /\ op.calls[1].what = "scalar")

C7_Witness ==
    /\ op.kind = "read" /\ op.outcome = "removed" /\ ~tracked.present
    /\ op.calls[1].resp.status = 404

\* C8: a Read that fails for any reason other than a 404 on the scalar fetch
\* (transport error, other status >= 300 on the scalar fetch, any status
\* >= 300 including 404 on a grants page, undecodable body) reports an error
\* and keeps tracked state as it was; only the scalar 404 removes it.
C8_FailedReadKeepsState ==
    [][/\ (/\ op'.kind = "read" /\ op'.calls # <<>>
           /\ CallFailed(LastCall(op'))
           /\ ~(/\ LastCall(op').what = "scalar"
                /\ ~LastCall(op').resp.err
                /\ LastCall(op').resp.status = 404))
          => (/\ Returned(op') /\ op'.outcome = "error" /\ op'.diag # ""
              /\ tracked' = tracked /\ tracked'.present)
       /\ (op'.kind = "read" /\ op'.outcome = "removed")
          => (LastCall(op').what = "scalar" /\ LastCall(op').resp.status = 404)]_vars

C8_Witness ==
    /\ op.kind = "read" /\ Returned(op) /\ op.outcome = "error"
    /\ LastCall(op).what = "page" /\ LastCall(op).resp.status = 404
    /\ tracked.present /\ tracked.m.email # Null

\* C9: Delete reports success exactly when the delete call returned without
\* transport error and with a status below 300 or equal to 404, drops the
\* resource in both cases alike, and reports an error for any other status.
C9_DeleteIdempotent ==
    (op.kind = "delete" /\ Returned(op))
        => LET r == op.calls[1].resp
           IN  /\ op.outcome = "ok" <=> (~r.err /\ (r.status < 300 \/ r.status = 404))
               /\ op.outcome \in {"ok", "error"}
               /\ op.outcome = "ok" => (~tracked.present /\ op.diag = "")
               /\ op.outcome = "error" => (tracked.present /\ op.diag # "")
               /\ Len(op.calls) = 1

C9_Witness ==
    /\ op.kind = "delete" /\ Succeeded(op) /\ ~tracked.present
    /\ op.calls[1].resp.status = 404

(***************************************************************************)
(* Properties of the paging specification.                                 *)
(***************************************************************************)
\* the pages a handler has received so far, in fetch order
FetchedPages(o) == [i \in 1..Len(PageCalls(o)) |-> PageCalls(o)[i].resp.page]

RECURSIVE Flatten(_)
Flatten(pages) == IF pages = <<>> THEN <<>> ELSE Head(pages).entries \o Flatten(Tail(pages))

RECURSIVE SumLen(_)
SumLen(pages) == IF pages = <<>> THEN 0 ELSE Len(Head(pages).entries) + SumLen(Tail(pages))

GrantsOf(state) == state.m.subuser_access.elems

C4_LoopHasNoCap ==
    [][op.pc = "page"
        => /\ op'.pc # "page"
                => (CallFailed(LastCall(op')) \/ LastCall(op').resp.page.next = 0)
           /\ (~CallFailed(LastCall(op')) /\ LastCall(op').resp.page.next # 0)
                => (/\ op'.pc = "page" /\ op'.kind = op.kind
                    /\ op'.outcome = "none" /\ tracked' = tracked)]_vars

C4_Witness ==
    /\ op.kind = "read" /\ op.pc = "page" /\ op.outcome = "none"
    /\ Len(PageCalls(op)) = MaxPages
    /\ \A i \in 1..MaxPages : FetchedPages(op)[i].next # 0
    /\ IsNull(tracked.m.email)

\* decimal text of the markers the paging server sends
DecimalOf(n) == CASE n = 12 -> "12" [] n = 50 -> "50" [] n = -1 -> "-1" [] OTHER -> "0"

\* C5 (as claimed): the first page request carries limit 100 and no
\* after_subuser_id, and every request after a page whose next
\* after_subuser_id is non-zero carries exactly that value.
C5_CursorFollowsMarker ==
    \A i \in 1..Len(PageCalls(op)) :
        LET c == PageCalls(op)[i]
        IN  /\ c.limit = "100"
            /\ i = 1 => c.after_subuser_id = Omitted
            /\ i > 1 => /\ PageCalls(op)[i - 1].resp.page.next # 0
                        /\ c.after_subuser_id = DecimalOf(PageCalls(op)[i - 1].resp.page.next)

Count(x, s) == Cardinality({i \in 1..Len(s) : s[i] = x})
IsPermutation(s, u) ==
    /\ Len(s) = Len(u)
    /\ \A x \in Range(s) \cup Range(u) : Count(x, s) = Count(x, u)

\* C6 (as claimed): after a successful Create whose N desired grants come
\* back over 3 pages of sizes 1, 1 and N-2, observed state holds exactly N
\* grants, no two with the same sub-account id.
C6_ReadBackComplete ==
    LET ps == FetchedPages(op)
        desired == PlanEntries(op.plan)
        N == Len(desired)
    IN  (/\ op.kind = "create" /\ Succeeded(op)
         /\ N >= 2 /\ Len(ps) = 3
         /\ Len(ps[1].entries) = 1 /\ Len(ps[2].entries) = 1 /\ Len(ps[3].entries) = N - 2
         /\ IsPermutation(DecodeEntries(Flatten(ps)), desired))
            => /\ Len(GrantsOf(tracked)) = N
               /\ \A i, j \in 1..Len(GrantsOf(tracked)) :
                    GrantsOf(tracked)[i].id = GrantsOf(tracked)[j].id => i = j

(***************************************************************************)
(* Properties of the order specification.                                  *)
(***************************************************************************)
GrantSet(list) == Range(list.elems)
GrantsById(list) == [k \in {g.id : g \in GrantSet(list)} |-> {g \in GrantSet(list) : g.id = k}]

Received(o) == Flatten(FetchedPages(o))
Committed(o) == o.kind \in {"create", "read", "update"} /\ Succeeded(o)

\* C11 (as claimed): a grant the server returns with permission_type admin
\* and a non-empty scopes list is written to observed state with null
\* scopes.
C11_AdminScopesErased ==
    Committed(op)
        => \A i \in 1..Len(Received(op)) :
            (/\ Received(op)[i].permission_type = "admin"
             /\ Len(Received(op)[i].scopes.items) > 0)
                => GrantsOf(tracked)[i].scopes = SetNull

\* C12: a grant the server returns with permission_type restricted is
\* written to observed state with exactly the returned scopes as a set of
\* known value: each returned scope is a member and nothing else is, and
\* two grants whose scopes differ only in order get the same scopes value.
C12_RestrictedScopesKept ==
    Committed(op)
        => /\ Len(GrantsOf(tracked)) = Len(Received(op))
           /\ \A i \in 1..Len(Received(op)) :
                Received(op)[i].permission_type = "restricted"
                    => /\ GrantsOf(tracked)[i].scopes.elems = Range(Received(op)[i].scopes.items)
                       /\ Len(Received(op)[i].scopes.items) > 0
                            => GrantsOf(tracked)[i].scopes.state = "known"
           /\ \A i, j \in 1..Len(Received(op)) :
                (/\ Received(op)[i].permission_type = "restricted"
                 /\ Received(op)[j].permission_type = "restricted"
                 /\ IsPermutation(Received(op)[i].scopes.items, Received(op)[j].scopes.items))
                    => GrantsOf(tracked)[i].scopes = GrantsOf(tracked)[j].scopes

C12_Witness ==
    /\ op.kind = "read" /\ Succeeded(op)
    /\ Received(op) = <<RestrictedAB, RestrictedBA>>
    /\ GrantsOf(tracked)[2].scopes = SetValue(<<"messages.read", "stats.read">>)
    /\ GrantsOf(tracked)[1].scopes = GrantsOf(tracked)[2].scopes

\* C13: an admin grant whose scopes the server omits, sends as null or
\* sends as an empty list is written to observed state as the same grant
\* value, with null scopes, by Create, by Update and by Read.
C13_AdminEmptyFormsAgree ==
    Committed(op)
        => \A i \in 1..Len(Received(op)) :
            (/\ Received(op)[i].permission_type = "admin"
             /\ Len(Received(op)[i].scopes.items) = 0)
                => GrantsOf(tracked)[i] =
                        [id |-> Received(op)[i].id, permission_type |-> "admin", scopes |-> SetNull]

C13_Witness ==
    /\ op.kind = "update" /\ Succeeded(op)
    /\ Received(op) = <<Admin1, AdminNull1, AdminEmpty1>>
    /\ GrantsOf(tracked)[1] = GrantsOf(tracked)[2]
    /\ GrantsOf(tracked)[2] = GrantsOf(tracked)[3]
    /\ GrantsOf(tracked)[3].scopes = SetNull

(***************************************************************************)
(* Properties of the patch specification.                                  *)
(***************************************************************************)
Updating(o) == o.kind = "update" /\ o.calls # <<>>
PatchBody(o) == o.calls[1].body
Mutating(c) == c.method \in {"POST", "PATCH", "DELETE"}
Present(t) == t \notin {Null, Unknown}

\* C14: an Update whose desired state has first_name set, last_name unset
\* and no subuser_access collection issues exactly one mutating request, a
\* PATCH whose body has first_name and no subuser_access field; every other
\* request of the Update is a GET.
C14_NamesOnlyPatchLeavesGrants ==
    (/\ Updating(op)
     /\ Present(op.plan.first_name) /\ IsNull(op.plan.last_name)
     /\ op.plan.subuser_access.state = "null")
        => /\ op.calls[1].method = "PATCH"
           /\ PatchBody(op).subuser_access = [present |-> FALSE, entries |-> <<>>]
           /\ PatchBody(op).first_name = op.plan.first_name
           /\ PatchBody(op).last_name = Omitted
           /\ \A i \in 2..Len(op.calls) : ~Mutating(op.calls[i])

C14_Witness ==
    /\ Updating(op) /\ Succeeded(op)
    /\ op.plan.first_name = "Ann" /\ IsNull(op.plan.last_name)
    /\ op.plan.subuser_access.state = "null"
    /\ tracked.m.subuser_access.state = "known"
    /\ ~PatchBody(op).subuser_access.present

\* C15: the PATCH body of an Update has first_name, last_name and
\* has_restricted_subuser_access exactly for those that are neither null
\* nor unknown in the desired state, each with the desired value (an empty
\* string is sent as an empty string); the others are omitted.
C15_PatchHasKnownFields ==
    Updating(op)
        => /\ PatchBody(op).first_name =
                IF Present(op.plan.first_name) THEN op.plan.first_name ELSE Omitted
           /\ PatchBody(op).last_name =
                IF Present(op.plan.last_name) THEN op.plan.last_name ELSE Omitted
           /\ PatchBody(op).has_restricted_subuser_access =
                IF Present(op.plan.has_restricted_subuser_access)
                THEN op.plan.has_restricted_subuser_access ELSE Omitted

C15_Witness ==
    /\ Updating(op)
    /\ op.plan.first_name = "" /\ PatchBody(op).first_name = ""
    /\ IsNull(op.plan.last_name) /\ PatchBody(op).last_name = Omitted
    /\ PatchBody(op).has_restricted_subuser_access = "false"

\* C16 (as claimed): whenever the desired state of an Update has a known
\* subuser_access collection, empty or not, the PATCH body has the
\* subuser_access field with every desired grant: its id, permission type
\* and scopes.
C16_PatchReplacesGrants ==
    (Updating(op) /\ op.plan.subuser_access.state = "known")
        => LET want == op.plan.subuser_access.elems
               sent == PatchBody(op).subuser_access
           IN  /\ sent.present
               /\ Len(sent.entries) = Len(want)
               /\ \A i \in 1..Len(want) :
                    /\ sent.entries[i].id = want[i].id
                    /\ sent.entries[i].permission_type = want[i].permission_type
                    /\ Range(sent.entries[i].scopes.items) = want[i].scopes.elems

(***************************************************************************)
(* Uniqueness of sub-account ids (paging specification).                   *)
(***************************************************************************)
UniqueIds(grants) ==
    \A i, j \in 1..Len(grants) : grants[i].id = grants[j].id => i = j

\* C17 (as claimed): in every observed state written by Create, Read or
\* Update no two grants have the same sub-account id, whatever the pages.
C17_ObservedIdsUnique ==
    Committed(op) => UniqueIds(GrantsOf(tracked))

\* C18 (as claimed): a Create or Update whose desired subuser_access has
\* two entries with the same id returns an error without any remote call.
C18_DuplicateIdsRejected ==
    (/\ op.kind \in {"create", "update"}
     /\ ~UniqueIds(op.plan.subuser_access.elems))
        => (op.calls = <<>> /\ Returned(op) /\ op.outcome = "error")

(***************************************************************************)
(* The life of a resource (lifecycle specification).                       *)
(***************************************************************************)
\* the resource is in tracked state with its fields read from the server
\* (an imported id alone is not yet a resource the caller sees)
Held(t) == t.present /\ ~IsNull(t.m.email)

ScalarNotFound(o) ==
    /\ Len(o.calls) = 1 /\ o.calls[1].what = "scalar"
    /\ ~o.calls[1].resp.err /\ o.calls[1].resp.status = 404

\* C19: the resource enters tracked state only by the last step of a
\* successful Create, or of a successful Read on an imported id; it stays
\* through every step of an Update and through every failed Read or Delete;
\* it leaves only by a successful Delete or by a Read whose scalar fetch is
\* answered 404; Create and Import start only while it is absent.
C19_Lifecycle ==
    [][/\ (~Held(tracked) /\ Held(tracked'))
            => /\ Succeeded(op')
               /\ op'.kind = "create" \/ (op'.kind = "read" /\ Imported)
       /\ (Held(tracked) /\ op'.kind = "update") => Held(tracked')
       /\ (Held(tracked) /\ op'.kind \in {"read", "delete"} /\ op'.outcome = "error")
            => tracked' = tracked
       /\ (Held(tracked) /\ ~Held(tracked'))
            => /\ ~tracked'.present
               /\ \/ op'.kind = "delete" /\ Succeeded(op')
                  \/ op'.kind = "read" /\ ScalarNotFound(op')
       /\ (op'.kind = "delete" /\ Succeeded(op')) => ~tracked'.present
       /\ (Ready /\ op' # op /\ op'.kind \in {"create", "import"})
            => ~tracked.present]_vars

C19_Witness ==
    /\ op.kind = "delete" /\ Succeeded(op) /\ ~tracked.present
    /\ op.calls[1].resp.status = 200
    /\ op.plan.status = "active" /\ op.plan.first_name = "Ann"

(***************************************************************************)
(* Import (lifecycle specification).                                       *)
(***************************************************************************)
ServerScopes(w) ==
    IF w.scopes.items = <<>> THEN [state |-> "null", elems |-> {}]
    ELSE [state |-> "known", elems |-> Range(w.scopes.items)]

ServerGrants(ws) ==
    IF ws = <<>> THEN [state |-> "null", elems |-> <<>>]
    ELSE [state |-> "known",
          elems |-> [i \in 1..Len(ws) |->
                        [id |-> ws[i].id, permission_type |-> ws[i].permission_type,
                         scopes |-> ServerScopes(ws[i])]]]

\* what the responses of a Read say about the resource
ServerView(o) ==
    [id |-> o.got.email, email |-> o.got.email,
     first_name |-> IF o.got.first_name = "" THEN Null ELSE o.got.first_name,
     last_name |-> IF o.got.last_name = "" THEN Null ELSE o.got.last_name,
     has_restricted_subuser_access |->
        IF LastCall(o).resp.page.hasR THEN "true" ELSE "false",
     subuser_access |-> ServerGrants(Received(o)),
     status |-> o.got.status]

\* C20: Import writes the given id and nothing else into state and issues
\* no remote call; the Read that follows looks the resource up by that id;
\* and the state a successful Read writes is determined by the responses
\* alone, the same after an import as after a Create or Update.
C20_ImportThenRead ==
    [][/\ (op' # op /\ op'.kind = "import")
            => /\ op'.calls = <<>>
               /\ tracked' = [present |-> TRUE, m |-> [NullModel EXCEPT !.id = op'.username]]
       /\ (Imported /\ op'.kind = "read")
            => /\ op'.calls # <<>>
               /\ op'.calls[1].path = "/v3/teammates/" \o tracked.m.id
               /\ \A i \in 2..Len(op'.calls) :
                    op'.calls[i].path = "/v3/teammates/" \o tracked.m.id \o "/subuser_access"
       /\ (op' # op /\ op'.kind = "read" /\ Succeeded(op'))
            => tracked' = [present |-> TRUE, m |-> ServerView(op')]]_vars

C20_Witness ==
    /\ op.kind = "read" /\ Succeeded(op)
    /\ IsNull(op.plan.email) /\ op.plan.id = "a@x.io"
    /\ tracked.m.email = "a@x.io" /\ tracked.m.id = "a@x.io"
    /\ tracked.m.first_name = "Ann"
    /\ Len(GrantsOf(tracked)) = 2

(***************************************************************************)
(* Properties of the provider specification.                               *)
(***************************************************************************)
SetNonEmpty(t) == t \notin {Null, Unknown, ""}

\* C30: after Configure the client has as API key the configured api_key if
\* that is set and non-empty and otherwise the value of SENDGRID_API_KEY,
\* as base URL the configured base_url if that is set and non-empty and
\* otherwise https://api.sendgrid.com, and data sources and resources get
\* this one client, with a configuration or with none.
C30_ConfigureResolvesClient ==
    provider.configured
        => /\ provider.DataSourceData = provider.ResourceData
           /\ provider.ResourceData.set
           /\ provider.ResourceData.APIKey =
                IF ~provider.config.zero /\ SetNonEmpty(provider.config.api_key)
                THEN provider.config.api_key ELSE provider.getenv
           /\ provider.ResourceData.BaseURL =
                IF ~provider.config.zero /\ SetNonEmpty(provider.config.base_url)
                THEN provider.config.base_url ELSE "https://api.sendgrid.com"

C30_Witness ==
    /\ provider.configured /\ provider.config.zero
    /\ provider.getenv = "env-key"
    /\ provider.DataSourceData = [set |-> TRUE, BaseURL |-> "https://api.sendgrid.com", APIKey |-> "env-key"]
    /\ provider.ResourceData = provider.DataSourceData

(***************************************************************************)
(* The read-back and the calls of an operation (lifecycle specification).  *)
(***************************************************************************)
ScalarPath(o) == "/v3/teammates/" \o o.username
PagePath(o) == "/v3/teammates/" \o o.username \o "/subuser_access"

\* C21: the read-back of a successful Update and of a successful Create is
\* the same procedure: after the mutating call, a GET of the teammate and
\* then the grants pages with limit 100, all for the handler's identity, and
\* names, status, restriction flag and grants assembled from the responses
\* in the same way.
C21_SameReadBack ==
    (op.kind \in {"create", "update"} /\ Succeeded(op))
        => /\ Len(op.calls) >= 3
           /\ op.calls[2].what = "scalar" /\ op.calls[2].method = "GET"
           /\ op.calls[2].path = ScalarPath(op)
           /\ \A i \in 3..Len(op.calls) :
                /\ op.calls[i].what = "page" /\ op.calls[i].method = "GET"
                /\ op.calls[i].path = PagePath(op) /\ op.calls[i].limit = "100"
           /\ op.calls[3].after_subuser_id = Omitted
           /\ tracked.m.first_name = ServerView(op).first_name
           /\ tracked.m.last_name = ServerView(op).last_name
           /\ tracked.m.status = ServerView(op).status
           /\ tracked.m.has_restricted_subuser_access = ServerView(op).has_restricted_subuser_access
           /\ tracked.m.subuser_access = ServerView(op).subuser_access

C21_Witness ==
    /\ op.kind = "update" /\ Succeeded(op)
    /\ Len(op.calls) = 4 /\ op.calls[1].method = "PATCH"
    /\ Len(GrantsOf(tracked)) = 2
    /\ tracked.m.first_name = Null /\ op.plan.first_name = "Ann"

\* C22: the calls of a Create are the POST to /v3/sso/teammates, then the
\* GET of the teammate, then the grants pages; the GET follows only a POST
\* answered below 300, the first page only a GET that succeeded and
\* decoded, and state is written only after a last page (next
\* after_subuser_id 0) was fetched and decoded.
C22_CreateCallOrder ==
    op.kind = "create"
        => /\ op.calls # <<>>
           /\ op.calls[1].what = "post" /\ op.calls[1].method = "POST"
           /\ op.calls[1].path = "/v3/sso/teammates"
           /\ Len(op.calls) >= 2
                => /\ ~op.calls[1].resp.err /\ op.calls[1].resp.status < 300
                   /\ op.calls[2].what = "scalar"
           /\ Len(op.calls) >= 3
                => /\ ~CallFailed(op.calls[2])
                   /\ \A i \in 3..Len(op.calls) : op.calls[i].what = "page"
           /\ tracked.present
                => /\ Succeeded(op) /\ Len(op.calls) >= 3
                   /\ ~CallFailed(LastCall(op))
                   /\ LastCall(op).resp.page.next = 0

C22_Witness ==
    /\ op.kind = "create" /\ Succeeded(op) /\ tracked.present
    /\ Len(op.calls) = 4
    /\ op.calls[3].resp.page.next # 0 /\ op.calls[4].resp.page.next = 0

\* C23: after a successful Create or Update the observed first name, last
\* name, status and restriction flag are what the read-back returned (an
\* empty name as null), whatever the desired state said, and the observed
\* id is the desired email.
C23_ScalarsFromServer ==
    (op.kind \in {"create", "update"} /\ Succeeded(op))
        => /\ tracked.m.first_name = IF op.got.first_name = "" THEN Null ELSE op.got.first_name
           /\ tracked.m.last_name = IF op.got.last_name = "" THEN Null ELSE op.got.last_name
           /\ tracked.m.status = op.got.status
           /\ tracked.m.has_restricted_subuser_access =
                (IF LastCall(op).resp.page.hasR THEN "true" ELSE "false")
           /\ tracked.m.id = op.plan.email
           /\ op.got = op.calls[2].resp.got

C23_Witness ==
    /\ op.kind = "update" /\ Succeeded(op)
    /\ op.plan.first_name = "Ann" /\ op.got.first_name = "" /\ tracked.m.first_name = Null
    /\ op.plan.has_restricted_subuser_access = "true"
    /\ tracked.m.has_restricted_subuser_access = "false"
    /\ tracked.m.status = "active"

CountCalls(o, what) == Cardinality({i \in 1..Len(o.calls) : o.calls[i].what = what})

\* C24: within one operation only the last call can have failed (transport
\* error, status >= 300, undecodable body): nothing is issued after a
\* failure; the POST, PATCH, DELETE and scalar GET are issued at most once,
\* and a page request is issued only after the scalar GET or after a page
\* that announced a next page.
C24_NoRetry ==
    /\ \A i \in 1..(Len(op.calls) - 1) : ~CallFailed(op.calls[i])
    /\ \A w \in {"post", "patch", "delete", "scalar"} : CountCalls(op, w) <= 1
    /\ CountCalls(op, "post") + CountCalls(op, "patch") + CountCalls(op, "delete") <= 1
    /\ \A i \in 2..Len(op.calls) :
        op.calls[i].what = "page"
            => \/ op.calls[i - 1].what = "scalar"
               \/ op.calls[i - 1].what = "page" /\ op.calls[i - 1].resp.page.next # 0
    /\ (op.calls # <<>> /\ CallFailed(LastCall(op))) => Returned(op)

C24_Witness ==
    /\ op.kind = "update" /\ Returned(op) /\ op.outcome = "error"
    /\ Len(op.calls) = 3
    /\ LastCall(op).what = "page" /\ LastCall(op).resp.err

\* C25: the restriction flag written to observed state is the
\* has_restricted_subuser_access of the last page fetched, whatever earlier
\* pages said.
C25_FlagOfLastPage ==
    Committed(op)
        => tracked.m.has_restricted_subuser_access =
                (IF FetchedPages(op)[Len(FetchedPages(op))].hasR THEN "true" ELSE "false")

C25_Witness ==
    /\ Committed(op) /\ op.kind = "read"
    /\ Len(FetchedPages(op)) = 2
    /\ FetchedPages(op)[1].hasR /\ ~FetchedPages(op)[2].hasR
    /\ tracked.m.has_restricted_subuser_access = "false"

\* C27: a Read that issues a call starts with the GET of the teammate and,
\* if that succeeds, fetches the grants from the first page on (no
\* after_subuser_id); the names, status, restriction flag and grants it
\* commits are those of the responses, whatever the prior state held.
C27_ReadIsFresh ==
    op.kind = "read"
        => /\ op.calls # <<>>
                => /\ op.calls[1].what = "scalar" /\ op.calls[1].method = "GET"
                   /\ op.calls[1].body = NoBody
           /\ Len(op.calls) >= 2
                => /\ op.calls[2].what = "page"
                   /\ op.calls[2].after_subuser_id = Omitted
           /\ Succeeded(op)
                => /\ Len(op.calls) >= 2
                   /\ FetchedPages(op)[Len(FetchedPages(op))].next = 0
                   /\ tracked.m.first_name = ServerView(op).first_name
                   /\ tracked.m.last_name = ServerView(op).last_name
                   /\ tracked.m.status = ServerView(op).status
                   /\ tracked.m.has_restricted_subuser_access =
                        ServerView(op).has_restricted_subuser_access
                   /\ tracked.m.subuser_access = ServerView(op).subuser_access

C27_Witness ==
    /\ op.kind = "read" /\ Succeeded(op)
    /\ op.plan.first_name = "Ann" /\ tracked.m.first_name = Null
    /\ op.plan.subuser_access.state = "known" /\ tracked.m.subuser_access = ListNull

(***************************************************************************)
(* Failure of a page fetch (paging specification).                         *)
(***************************************************************************)
\* C26: a page fetch that fails (transport error, status >= 300,
\* undecodable body) ends the handler at once with an error: the step
\* leaves observed state as it was, so none of the grants accumulated from
\* earlier pages reach it, and the handler issues no further call.
C26_PageFailureAborts ==
    [][/\ (op.pc = "page" /\ op' # op /\ CallFailed(LastCall(op')))
            => /\ Returned(op') /\ op'.outcome = "error" /\ op'.diag # ""
               /\ Len(op'.calls) = Len(op.calls) + 1
               /\ tracked' = tracked
       /\ (Returned(op) /\ op.outcome = "error" /\ op' # op)
            => /\ Len(op'.calls) <= 1
               /\ \A i \in 1..Len(op'.calls) : op'.calls[i].what # "page"]_vars

C26_Witness ==
    /\ op.kind = "read" /\ Returned(op) /\ op.outcome = "error"
    /\ Len(PageCalls(op)) = 3 /\ Len(op.allEntries) >= 2
    /\ ~LastCall(op).resp.decodes
    /\ tracked.m.subuser_access = ListNull /\ IsNull(tracked.m.email)

(***************************************************************************)
(* Properties of the identifier specification.                             *)
(***************************************************************************)
Empty(t) == t \in {Null, Unknown, ""}

\* C29: a Read whose prior state has an empty email and an empty, null or
\* unknown id returns the error "Missing identifier" without a remote call
\* and with state as it was; with an empty email and an id, its calls look
\* the teammate up by the id.  (op.plan is the prior state of a Read.)
C29_MissingIdentifier ==
    op.kind = "read"
        => /\ (Empty(op.plan.email) /\ Empty(op.plan.id))
                => /\ Returned(op) /\ op.outcome = "error"
                   /\ op.diag = "Missing identifier"
                   /\ op.calls = <<>>
                   /\ tracked = [present |-> TRUE, m |-> op.plan]
           /\ (Empty(op.plan.email) /\ ~Empty(op.plan.id))
                => /\ op.calls # <<>>
                   /\ op.diag # "Missing identifier"
                   /\ op.calls[1].path = "/v3/teammates/" \o op.plan.id
           /\ ~Empty(op.plan.email)
                => /\ op.calls # <<>>
                   /\ op.calls[1].path = "/v3/teammates/" \o op.plan.email

C29_Witness ==
    /\ op.kind = "read" /\ Returned(op) /\ op.diag = "Missing identifier"
    /\ op.calls = <<>>
    /\ tracked.present /\ tracked.m.email = "" /\ tracked.m.id = ""
    /\ tracked.m.status = "active"

(***************************************************************************)
(* Properties of the pair specification.                                   *)
(***************************************************************************)
\* what an operation of the resource `who` is when it runs alone: its calls
\* address `who`, its accumulator holds the grants of its own pages, its
\* outcome follows from its own responses, and the state it commits is the
\* view of its own responses.
AsAlone(who, t, o) ==
    /\ \A i \in 1..Len(o.calls) :
        o.calls[i].path \in {"/v3/teammates/" \o who,
                             "/v3/teammates/" \o who \o "/subuser_access"}
    /\ Len(o.allEntries) = Len(Received(o))
    /\ \A i \in 1..Len(o.allEntries) :
        /\ o.allEntries[i].id = Received(o)[i].id
        /\ o.allEntries[i].permission_type = Received(o)[i].permission_type
    /\ (o.kind = "read" /\ Returned(o))
        => /\ o.calls # <<>>
           /\ o.outcome = IF ScalarNotFound(o) THEN "removed"
                           ELSE IF CallFailed(LastCall(o)) THEN "error" ELSE "ok"
           /\ o.outcome = "ok" => t = [present |-> TRUE, m |-> ServerView(o)]
           /\ o.outcome = "removed" => ~t.present
    /\ (o.kind = "delete" /\ Returned(o))
        => /\ o.outcome = IF \/ o.calls[1].resp.err
                              \/ (o.calls[1].resp.status >= 300 /\ o.calls[1].resp.status # 404)
                           THEN "error" ELSE "ok"
           /\ o.outcome = "ok" => ~t.present
    /\ t.present => t.m.id = who

\* C28: under every interleaving of the calls of operations on two
\* distinct identities, a step of one operation leaves the other resource
\* and its waiting handler as they were, and each operation has the calls,
\* outcome and committed state it has when it runs alone.
C28_NoSharedState ==
    [][/\ \/ baseline' = baseline
          \/ /\ baseline' = Parked(Running, tracked, op, createdAs)
             /\ tracked' = baseline.tracked /\ op' = baseline.op
       /\ AsAlone(Running, tracked, op)
       /\ AsAlone(baseline.who, baseline.tracked, baseline.op)]_vars

C28_Witness ==
    /\ baseline.op.kind = "read" /\ baseline.op.pc = "page"
    /\ Len(baseline.op.allEntries) = 1
    /\ op.kind = "read" /\ Succeeded(op)
    /\ Len(FetchedPages(op)) = 3 /\ Len(GrantsOf(tracked)) = 3
    /\ tracked.m.id # baseline.tracked.m.id

(***************************************************************************)
(* Identity in Update and in observed state (lifecycle specification).     *)
(***************************************************************************)
\* C31: an Update sends its PATCH to the email of the prior state, and its
\* read-back calls as well; it always issues the PATCH, whatever the
\* desired email is; and the email and id of the state it commits are the
\* desired email.
C31_UpdateKeepsOldAddress ==
    [][/\ (Ready /\ op' # op /\ op'.kind = "update")
            => /\ op'.username = tracked.m.email
               /\ Len(op'.calls) = 1
               /\ op'.calls[1].method = "PATCH"
               /\ op'.calls[1].path = "/v3/sso/teammates/" \o tracked.m.email
       /\ (~Ready /\ op.kind = "update" /\ op' # op)
            => /\ op'.kind = "update"
               /\ op'.username = op.username
               /\ LastCall(op').path \in {ScalarPath(op), PagePath(op)}
               /\ ~Succeeded(op') => tracked' = tracked
               /\ Succeeded(op')
                    => /\ tracked'.present
                       /\ tracked'.m.email = op.plan.email
                       /\ tracked'.m.id = op.plan.email]_vars

C31_Witness ==
    /\ op.kind = "update" /\ Succeeded(op)
    /\ op.username = "a@x.io" /\ op.plan.email = "b@x.io"
    /\ op.calls[1].path = "/v3/sso/teammates/a@x.io"
    /\ op.calls[2].path = "/v3/teammates/a@x.io"
    /\ tracked.m.email = "b@x.io" /\ tracked.m.id = "b@x.io"

\* C32: a Create whose POST succeeded and whose read-back then failed (the
\* GET of the teammate or a grants page) has returned an error, has written
\* no state, and has issued no call besides the POST and the read-back
\* GETs: nothing deletes what the POST created.
C32_NoCompensation ==
    (/\ op.kind = "create" /\ Len(op.calls) >= 2
     /\ CallFailed(LastCall(op)))
        => /\ Returned(op) /\ op.outcome = "error" /\ op.diag # ""
           /\ ~tracked.present
           /\ ~op.calls[1].resp.err /\ op.calls[1].resp.status < 300
           /\ \A i \in 2..Len(op.calls) : op.calls[i].method = "GET"

C32_Witness ==
    /\ op.kind = "create" /\ Returned(op) /\ op.outcome = "error"
    /\ Len(op.calls) = 2 /\ op.calls[1].resp.status = 200
    /\ op.calls[2].resp.status = 404
    /\ ~tracked.present

\* C34: in every state committed by a successful Create, Read or Update the
\* id equals the email: both are the desired email after Create and Update
\* and the email the server returned after Read.
C34_IdIsEmail ==
    Committed(op)
        => /\ tracked.m.id = tracked.m.email
           /\ op.kind \in {"create", "update"} => tracked.m.id = op.plan.email
           /\ op.kind = "read" => tracked.m.id = op.calls[1].resp.got.email

C34_Witness ==
    /\ op.kind = "read" /\ Succeeded(op)
    /\ op.plan.id = "a@x.io" /\ IsNull(op.plan.email)
    /\ tracked.m.id = "b@x.io" /\ tracked.m.email = "b@x.io"

\* C36: Create, Read and Update alike record a first or last name that the
\* server returns empty as null, never as an empty string, and a
\* collection fetch that accumulated no entry as a null list, never as an
\* empty list.
C36_AbsentIsNull ==
    Committed(op)
        => /\ tracked.m.first_name # ""
           /\ tracked.m.last_name # ""
           /\ op.got.first_name = "" <=> tracked.m.first_name = Null
           /\ op.got.last_name = "" <=> tracked.m.last_name = Null
           /\ Received(op) = <<>> <=> tracked.m.subuser_access = ListNull
           /\ tracked.m.subuser_access # ListValue(<<>>)

C36_Witness ==
    /\ op.kind = "update" /\ Succeeded(op)
    /\ op.got.first_name = "" /\ tracked.m.first_name = Null
    /\ tracked.m.last_name = Null
    /\ Received(op) = <<>> /\ tracked.m.subuser_access = ListNull
    /\ op.plan.subuser_access.state = "known"

(***************************************************************************)
(* The identity in the path of a call (identifier specification).          *)
(***************************************************************************)
\* C33 (as claimed): no call of a Read, Update or Delete has an empty
\* identity in its path.
C33_NoEmptyIdentity ==
    op.kind \in {"read", "update", "delete"}
        => \A i \in 1..Len(op.calls) :
            op.calls[i].path \notin {"/v3/teammates/", "/v3/sso/teammates/",
                                     "/v3/teammates//subuser_access"}

(***************************************************************************)
(* The repeat specification: handlers run one after another against an     *)
(* unchanged remote, and the outcome of a successful one is kept for       *)
(* comparison with the next (as the acceptance test's import-and-verify    *)
(* and plan-only steps compare a refreshed state with the one before).     *)
(***************************************************************************)
Repeat ==
    [plans |-> {PlanOf("a@x.io", "Ann", ListValue(<<PlanAdmin1>>))},
     gots |-> {GotOf("a@x.io", ""), GotOf("b@x.io", "Ann")},
     pages |-> {[hasR |-> TRUE, entries |-> <<Admin1>>, next |-> 1],
                [hasR |-> FALSE, entries |-> <<Restricted2>>, next |-> 0]},
     importIds |-> {}]

InitRepeat ==
    /\ baseline = Parked("", NoState, IdleOp, "")
    /\ tracked = NoState
    /\ op = IdleOp
    /\ createdAs = ""
    /\ Serving

\* the state and the responses of the handler that has just succeeded are
\* kept aside
Remember ==
    /\ op.pc = "done" /\ op.outcome = "ok"
    /\ op.kind \in {"create", "read", "update"}
    /\ baseline' = Parked(op.username, tracked, op, createdAs)
    /\ UNCHANGED <<tracked, op, createdAs, env, provider, client, data>>

NextRepeat ==
    \/ CreatePost(Repeat)
    \/ CreateGet(Repeat)
    \/ CreatePage(Repeat)
    \/ ReadGet(Repeat)
    \/ ReadPage(Repeat)
    \/ UpdatePatch(Repeat)
    \/ UpdateGet(Repeat)
    \/ UpdatePage(Repeat)
    \/ Remember

SpecRepeat == InitRepeat /\ [][NextRepeat]_vars

\* a successful Read that started from the state kept aside and received
\* the responses the handler that committed that state received, the email
\* being the one that state holds
SameRemote ==
    /\ op.kind = "read" /\ Succeeded(op)
    /\ Committed(baseline.op)
    /\ op.plan = baseline.tracked.m
    /\ op.got = baseline.op.got
    /\ FetchedPages(op) = FetchedPages(baseline.op)
    /\ op.got.email = baseline.tracked.m.email

\* C35: a Read that follows a successful Create, Update or Read and gets
\* the same teammate and the same pages from the server, the email being
\* the one in state, commits the very state that was there before it.
C35_ReadIsIdempotent ==
    SameRemote => tracked = baseline.tracked

C35_Witness ==
    /\ SameRemote
    /\ baseline.op.kind = "create"
    /\ baseline.op.plan.first_name = "Ann" /\ op.got.first_name = ""
    /\ Len(FetchedPages(op)) = 2
    /\ tracked = baseline.tracked

(***************************************************************************)
(* The start-up specification: the provider process starts with no client  *)
(* anywhere, the framework configures the provider and the resource in any *)
(* order and any number of times, handlers are called in between, and the  *)
(* process may end and a new one start over the state Terraform kept.      *)
(***************************************************************************)
Bare ==
    [plans |-> {PlanOf("a@x.io", Null, ListNull)},
     gots |-> {GotOf("a@x.io", "")},
     pages |-> {[hasR |-> FALSE, entries |-> <<>>, next |-> 0]},
     importIds |-> {"a@x.io"}]

\* a new provider process: New() and NewSSOTeammateResource() again
Restart ==
    /\ provider' = Unconfigured
    /\ client' = NoClients
    /\ op' = IdleOp
    /\ data' = NoData
    /\ UNCHANGED <<tracked, createdAs, baseline, env>>

NextStartup ==
    \/ Configure
    \/ ResourceConfigure
    \/ Restart
    \/ CreatePost(Bare)
    \/ CreateGet(Bare)
    \/ CreatePage(Bare)
    \/ ReadGet(Bare)
    \/ ReadPage(Bare)
    \/ UpdatePatch(Bare)
    \/ UpdateGet(Bare)
    \/ UpdatePage(Bare)
    \/ Delete
    \/ ImportState(Bare)

SpecStartup == Constructed /\ [][NextStartup]_vars

\* C37: a Create, Read, Update or Delete called while the resource has no
\* client returns at once with the error "Not configured": it has read
\* neither plan nor state, has issued no call, and leaves the state as it
\* was.
C37_NotConfigured ==
    [][(/\ Ready /\ ~client.SSOTeammateResource.set
        /\ op' # op /\ op'.kind \in {"create", "read", "update", "delete"})
            => /\ op'.pc = "done" /\ op'.outcome = "error"
               /\ op'.diag = "Not configured"
               /\ op'.calls = <<>>
               /\ op'.plan = NullModel /\ op'.username = ""
               /\ tracked' = tracked]_vars

C37_Witness ==
    /\ ~client.SSOTeammateResource.set
    /\ tracked.present /\ tracked.m.email = "a@x.io"
    /\ op.kind = "delete" /\ Returned(op) /\ op.diag = "Not configured"
    /\ op.calls = <<>>

(***************************************************************************)
(* The data sources teammate and teammate_subuser_access.  Each Read is    *)
(* one step: it reads its configuration, issues at most one GET and sets   *)
(* the state or adds an error.                                             *)
(***************************************************************************)
\* types.Int64
Int64Null == [state |-> "null", v |-> 0]
Int64Unknown == [state |-> "unknown", v |-> 0]
Int64Value(n) == [state |-> "known", v |-> n]
ValueInt64(t) == t.v

\* the request as handed to sendgrid.API, with the response
DataCall(path, query, headers, resp) ==
    [method |-> "GET", path |-> path, query |-> query, headers |-> headers, resp |-> resp]

\* what a Read leaves: the error it added, or the state it set
DataFail(kind, config, calls, title) ==
    [kind |-> kind, config |-> config, calls |-> calls, set |-> FALSE, state |-> <<>>,
     diag |-> title]
DataSet(kind, config, calls, state) ==
    [kind |-> kind, config |-> config, calls |-> calls, set |-> TRUE, state |-> state,
     diag |-> ""]

\* queryParams[k] = strconv.FormatInt(v.ValueInt64(), 10), only if v is
\* neither null nor unknown
QueryInt_Always(t) == FormatInt(ValueInt64(t))
QueryInt(t) == IF t.state = "known" THEN FormatInt(ValueInt64(t)) ELSE Omitted
QueryString(t) == IF ~IsNull(t) /\ ~IsUnknown(t) THEN ValueString(t) ELSE Omitted

\* one element of the payload's subuser_access -> subuserAccessModel
AccessModelOf(item) ==
    [id |-> Int64Value(item.id),
     username |-> StringValue(item.username),
     email |-> StringValue(item.email),
     disabled |-> BoolValue(item.disabled),
     permission_type |-> StringValue(item.permission_type),
     scopes |-> SetValue(DecodeScopes(item.scopes).items)]

\* teammateSubuserAccessModel as set into state
AccessStateOf(config, payload) ==
    [teammate_name |-> config.teammate_name,
     limit |-> config.limit,
     after_subuser_id |-> config.after_subuser_id,
     username |-> config.username,
     has_restricted_subuser_access |-> BoolValue(payload.has_restricted_subuser_access),
     subuser_access |-> [i \in 1..Len(payload.subuser_access) |->
                            AccessModelOf(payload.subuser_access[i])],
     next_limit |-> Int64Value(payload.next_params.limit),
     next_after_subuser_id |-> Int64Value(payload.next_params.after_subuser_id),
     next_username |-> StringValue(payload.next_params.username)]

SubuserAccessRead(DS) ==
    /\ \E config \in DS.access, resp \in DS.pages :
        LET teammateName == ValueString(config.teammate_name)
            call == DataCall("/v3/teammates/" \o teammateName \o "/subuser_access",
                             [limit |-> QueryInt(config.limit),
                              after_subuser_id |-> QueryInt(config.after_subuser_id),
                              username |-> QueryString(config.username)],
                             [on_behalf_of |-> Omitted], resp)
        IN  data' =
                IF IsUnknown(config.teammate_name) \/ IsNull(config.teammate_name)
                THEN DataFail("access", config, <<>>, "Missing teammate_name")
                ELSE IF ~client.TeammateSubuserAccessDataSource.set
                THEN DataFail("access", config, <<>>, "Unconfigured provider")
                ELSE IF resp.err
                THEN DataFail("access", config, <<call>>, "SendGrid API request failed")
                ELSE IF resp.status >= 300
                THEN DataFail("access", config, <<call>>, "SendGrid API error")
                ELSE IF ~resp.decodes
                THEN DataFail("access", config, <<call>>, "Failed to parse API response")
                ELSE DataSet("access", config, <<call>>, AccessStateOf(config, resp.body))
    /\ UNCHANGED <<tracked, op, createdAs, baseline, env, provider, client>>

\* the string fields of the teammate payload that Read copies into state
TeammateStrings ==
    {"email", "first_name", "last_name", "user_type", "phone", "website", "company",
     "address", "address2", "city", "state", "zip", "country"}

\* if payload.Username == "" { AddError("Teammate not found", ...) }
TeammateFound_Always(payload) == TRUE
TeammateFound(payload) == payload.username # ""

\* teammateModel as set into state
TeammateStateOf(config, payload) ==
    [username |-> config.username,
     on_behalf_of |-> config.on_behalf_of,
     strings |-> [f \in TeammateStrings |-> StringValue(payload.strings[f])],
     is_admin |-> BoolValue(payload.is_admin),
     scopes |-> SetValue(DecodeScopes(payload.scopes).items)]

TeammateRead(DS) ==
    /\ \E config \in DS.teammates, resp \in DS.gots :
        LET onBehalf == IF ~IsNull(config.on_behalf_of) /\ ~IsUnknown(config.on_behalf_of)
                        THEN ValueString(config.on_behalf_of) ELSE ""
            username == ValueString(config.username)
            call == DataCall("/v3/teammates/" \o username,
                             [limit |-> Omitted, after_subuser_id |-> Omitted,
                              username |-> Omitted],
                             [on_behalf_of |-> IF onBehalf # "" THEN onBehalf ELSE Omitted],
                             resp)
        IN  data' =
                IF IsUnknown(config.username) \/ IsNull(config.username)
                THEN DataFail("teammate", config, <<>>, "Missing username")
                ELSE IF ~client.TeammateDataSource.set
                THEN DataFail("teammate", config, <<>>, "Unconfigured provider")
                ELSE IF resp.err
                THEN DataFail("teammate", config, <<call>>, "SendGrid API request failed")
                ELSE IF resp.status >= 300
                THEN DataFail("teammate", config, <<call>>, "SendGrid API error")
                ELSE IF ~resp.decodes
                THEN DataFail("teammate", config, <<call>>, "Failed to parse API response")
                ELSE IF ~TeammateFound(resp.body)
                THEN DataFail("teammate", config, <<call>>, "Teammate not found")
                ELSE DataSet("teammate", config, <<call>>, TeammateStateOf(config, resp.body))
    /\ UNCHANGED <<tracked, op, createdAs, baseline, env, provider, client>>

(***************************************************************************)
(* The data source specification: both data sources read, with any         *)
(* configuration and any response, in a configured process and in one      *)
(* that was started anew and not configured.                               *)
(***************************************************************************)
\* the payload of GET /v3/teammates/{name}/subuser_access after
\* json.Unmarshal: absent members are zero
AccessPayload(hasR, items, l, a, u) ==
    [has_restricted_subuser_access |-> hasR, subuser_access |-> items,
     next_params |-> [limit |-> l, after_subuser_id |-> a, username |-> u]]

\* the payload of GET /v3/teammates/{username} after json.Unmarshal
TeammatePayload(u, str, admin, scopes) ==
    [username |-> u, strings |-> [f \in TeammateStrings |-> IF f = "email" THEN u ELSE str],
     is_admin |-> admin, scopes |-> scopes]

\* the responses of sendgrid.API to a data source: a transport error, or a
\* status with a body that json.Unmarshal rejects or decodes into a payload
DataResponses(payloads) ==
    {[err |-> TRUE, status |-> 0, decodes |-> FALSE, body |-> <<>>]}
        \cup {[err |-> FALSE, status |-> st, decodes |-> FALSE, body |-> <<>>] :
                st \in Statuses}
        \cup {[err |-> FALSE, status |-> st, decodes |-> TRUE, body |-> b] :
                st \in {200, 299, 404}, b \in payloads}

Sources ==
    LET item1 == [id |-> 1, username |-> "sub1", email |-> "s1@x.io", disabled |-> FALSE,
                  permission_type |-> "admin",
                  scopes |-> [form |-> "omitted", items |-> <<>>]]
        item2 == [id |-> 2, username |-> "sub2", email |-> "s2@x.io", disabled |-> TRUE,
                  permission_type |-> "restricted",
                  scopes |-> [form |-> "list", items |-> <<"messages.read", "stats.read">>]]
    IN  [access |-> [teammate_name : {Null, Unknown, "a@x.io"},
                     limit : {Int64Null, Int64Unknown, Int64Value(50)},
                     after_subuser_id : {Int64Null, Int64Value(12)},
                     username : {Null, Unknown, "", "sub1"}],
         pages |-> DataResponses(
                    {AccessPayload(TRUE, <<item1, item2>>, 50, 12, "sub2"),
                     AccessPayload(TRUE, <<item2>>, 0, 0, ""),
                     AccessPayload(FALSE, <<>>, 0, 0, "")}),
         teammates |-> [username : {Null, Unknown, "", "a@x.io"},
                        on_behalf_of : {Null, Unknown, "", "sub1"}],
         gots |-> DataResponses(
                    {TeammatePayload("a@x.io", "x", TRUE,
                                     [form |-> "list", items |-> <<"stats.read">>]),
                     TeammatePayload("a@x.io", "", FALSE, [form |-> "null", items |-> <<>>]),
                     TeammatePayload("", "", FALSE, [form |-> "omitted", items |-> <<>>])})]

NextData ==
    \/ SubuserAccessRead(Sources)
    \/ TeammateRead(Sources)
    \/ Restart

SpecData == Init /\ [][NextData]_vars

\* the one call of a data source Read, and whether it brought a payload
Called == Len(data.calls) = 1
Payload == data.calls[1].resp.body
Delivered ==
    /\ Called
    /\ ~data.calls[1].resp.err
    /\ data.calls[1].resp.status < 300
    /\ data.calls[1].resp.decodes

\* C38: a Read of teammate_subuser_access issues at most one GET, of
\* /v3/teammates/{teammate_name}/subuser_access, whatever cursor the
\* response carries; the query has limit, after_subuser_id and username
\* exactly when the configuration sets them; if the call succeeds with a
\* decodable body the state holds the grants of that page, its flag and
\* the next_params of the response; if the transport fails, the status is
\* 300 or more or the body does not decode, the Read has an error and no
\* state.
C38_OnePageOnly ==
    data.kind = "access"
        => /\ Len(data.calls) <= 1
           /\ Called
                => LET c == data.calls[1]
                   IN  /\ c.method = "GET"
                       /\ c.path = "/v3/teammates/" \o data.config.teammate_name
                                        \o "/subuser_access"
                       /\ c.query.limit =
                            IF data.config.limit.state = "known"
                            THEN DecimalOf(data.config.limit.v) ELSE Omitted
                       /\ c.query.after_subuser_id =
                            IF data.config.after_subuser_id.state = "known"
                            THEN DecimalOf(data.config.after_subuser_id.v) ELSE Omitted
                       /\ c.query.username =
                            IF data.config.username \in {Null, Unknown}
                            THEN Omitted ELSE data.config.username
           /\ data.set <=> Delivered
           /\ ~data.set <=> data.diag # ""
           /\ data.set
                => /\ data.state.has_restricted_subuser_access =
                        BoolValue(Payload.has_restricted_subuser_access)
                   /\ Len(data.state.subuser_access) = Len(Payload.subuser_access)
                   /\ \A i \in 1..Len(Payload.subuser_access) :
                        LET g == data.state.subuser_access[i]
                            w == Payload.subuser_access[i]
                        IN  /\ g.id = [state |-> "known", v |-> w.id]
                            /\ g.username = w.username /\ g.email = w.email
                            /\ g.disabled = BoolValue(w.disabled)
                            /\ g.permission_type = w.permission_type
                            /\ g.scopes.state = "known"
                            /\ g.scopes.elems = Range(w.scopes.items)
                   /\ data.state.next_limit = [state |-> "known", v |-> Payload.next_params.limit]
                   /\ data.state.next_after_subuser_id =
                        [state |-> "known", v |-> Payload.next_params.after_subuser_id]
                   /\ data.state.next_username = Payload.next_params.username

C38_Witness ==
    /\ data.kind = "access" /\ data.set
    /\ Len(data.calls) = 1
    /\ data.calls[1].query = [limit |-> "50", after_subuser_id |-> Omitted, username |-> Omitted]
    /\ Payload.next_params.after_subuser_id = 12
    /\ data.state.next_after_subuser_id = [state |-> "known", v |-> 12]
    /\ Len(data.state.subuser_access) = 2

\* C39: a Read of the teammate data source sets state exactly when its GET
\* returned a status below 300 with a decodable body whose username is not
\* empty; a transport error, any status of 300 or more (404 as well), an
\* undecodable body and an empty username each leave an error and no state.
C39_NoNotFoundOutcome ==
    data.kind = "teammate"
        => /\ Len(data.calls) <= 1
           /\ data.set <=> (Delivered /\ Payload.username # "")
           /\ ~data.set <=> data.diag # ""
           /\ (Called /\ data.calls[1].resp.err) => data.diag = "SendGrid API request failed"
           /\ (Called /\ ~data.calls[1].resp.err /\ data.calls[1].resp.status >= 300)
                => data.diag = "SendGrid API error"
           /\ (Delivered /\ Payload.username = "") => data.diag = "Teammate not found"
           /\ data.set
                => /\ \A f \in TeammateStrings : data.state.strings[f] = Payload.strings[f]
                   /\ data.state.is_admin = BoolValue(Payload.is_admin)
                   /\ data.state.scopes.state = "known"

C39_Witness ==
    /\ data.kind = "teammate" /\ ~data.set
    /\ Called /\ data.calls[1].resp.status = 200 /\ data.calls[1].resp.decodes
    /\ Payload.username = ""
    /\ data.diag = "Teammate not found"
====
